---- MODULE Spec2Model ----
(***************************************************************************)
(* Per-application audio mixer: the session enumeration and control engine *)
(* (audio/mod.rs, AudioManager) and the routing controller with its        *)
(* binary interface adapter (audio/policy.rs, AudioPolicyConfigFactory).   *)
(*                                                                         *)
(* The remote audio subsystem is the variable world: the active render     *)
(* devices in enumeration order, each with its sessions in enumeration     *)
(* order.  Every remote call an operation makes can fail; one operation    *)
(* meets at most one failing call site, given as the input f.              *)
(***************************************************************************)
EXTENDS Integers, Sequences, FiniteSets, TLC

VARIABLES world, app_handle, last, plast, cb, notified, mutex, manager, pc

\* AudioState: the mutex, the Option it guards, and where each worker is
hostvars == <<mutex, manager, pc>>

vars == <<world, app_handle, last, plast, cb, notified, hostvars>>

(* ------------------------------ bounds --------------------------------- *)
MaxDev == 2
MaxTotal == 2
MaxPid == 1
MaxVol == 1
MaxListeners == 1
MaxThreads == 2
MaxState == 3
MaxListings == 2

(* --------------------------- value domains ----------------------------- *)
AudioSessionState == {"Inactive", "Active", "Expired"}
Pids == 0 .. MaxPid
Vols == 0 .. MaxVol
DeviceIds == 1 .. MaxDev
\* the f32 argument of set_session_volume: the levels of [0.0, 1.0] and one
\* value on each side of the range
VolumeArgs == -1 .. MaxVol + 1

\* AudioSessionInfo, without the icon blob's content
AudioSessionInfo(pid, name, vol, mute, icon, dev) ==
    [process_id |-> pid, process_name |-> name, volume |-> vol,
     is_muted |-> mute, icon_base64 |-> icon, device_id |-> dev]

\* a remote session object: what GetProcessId, GetState, GetMasterVolume and
\* GetMute answer, and the number of listeners registered on it
SessionObjects == [pid : Pids, state : AudioSessionState, vol : Vols,
                   mute : BOOLEAN, lis : {0}]

\* a listing that forgot the process id filter
IsSystemSession_Never(pid) == FALSE

\* mod.rs 132: system sounds are reported under process id 0
IsSystemSession(pid) == pid = 0

\* a listing that shows running sessions only
IsExpired_OrInactive(state) == state # "Active"

\* a listing that forgot the lifecycle filter
IsExpired_Never(state) == FALSE

\* mod.rs 139: only AudioSessionStateExpired is filtered
IsExpired(state) == state = "Expired"

\* a listing that inserts at the front
Push_Front(sessions_info, info) == <<info>> \o sessions_info

\* mod.rs 196: sessions_info.push
Push(sessions_info, info) == Append(sessions_info, info)

NoFault == <<"none", 0, 0>>
Fails(f, site, d, i) == f = <<site, d, i>>

(* ------------------- AudioManager::get_sessions ------------------------ *)
EnumSites == {"EnumAudioEndpoints", "GetCount"}
DeviceSitesList == {"Item", "GetId", "IdToString", "Activate",
                    "GetSessionEnumerator", "SessionCount"}
DeviceSitesApply == {"Item", "Activate", "GetSessionEnumerator", "SessionCount"}
SessionSitesList == {"GetSession", "CastControl2", "GetProcessId", "GetState",
                     "CastSimpleVolume", "GetMasterVolume", "GetMute",
                     "CastControl", "Register", "ProcessPath"}
SessionSitesApply == {"GetSession", "CastControl2", "GetProcessId",
                      "CastSimpleVolume", "Action"}

FaultPoints(w, dsites, ssites) ==
    {NoFault}
      \cup {<<s, 0, 0>> : s \in EnumSites}
      \cup {<<s, d, 0>> : s \in dsites, d \in 1 .. Len(w)}
      \cup UNION {{<<s, d, i>> : s \in ssites, i \in 1 .. Len(w[d].sessions)}
                    : d \in 1 .. Len(w)}

\* a read whose failure goes unnoticed
ReadOr_Unchecked(ok, value, default) == value

\* mod.rs 145-155: the value read, or the default when the interface or the
\* read failed
ReadOr(ok, value, default) == IF ok THEN value ELSE default

\* the body of the inner loop for session i of device d (mod.rs 123-204);
\* acc carries sessions_info, the listeners registered so far and two ghosts:
\* src, the position <<d, i>> of the session each entry was read from, and
\* met, whether the failing call site f has been executed
RECURSIVE SessionLoop(_, _, _, _, _, _, _)
SessionLoop(w, f, h, d, devid, i, acc) ==
    IF i > Len(w[d].sessions) THEN acc
    ELSE IF Fails(f, "GetSession", d, i)
         THEN [acc EXCEPT !.res = "Err", !.met = TRUE]
    ELSE IF Fails(f, "CastControl2", d, i)
         THEN SessionLoop(w, f, h, d, devid, i + 1, [acc EXCEPT !.met = TRUE])
    ELSE IF Fails(f, "GetProcessId", d, i)
         THEN [acc EXCEPT !.res = "Err", !.met = TRUE]
    ELSE LET s == w[d].sessions[i] IN
         IF IsSystemSession(s.pid)
         THEN SessionLoop(w, f, h, d, devid, i + 1, acc)
         ELSE IF Fails(f, "GetState", d, i)
              THEN [acc EXCEPT !.res = "Err", !.met = TRUE]
         ELSE IF IsExpired(s.state)
              THEN SessionLoop(w, f, h, d, devid, i + 1, acc)
         ELSE LET sv == ~Fails(f, "CastSimpleVolume", d, i)
                  vol == ReadOr(sv /\ ~Fails(f, "GetMasterVolume", d, i),
                                s.vol, 0)
                  mute == ReadOr(sv /\ ~Fails(f, "GetMute", d, i),
                                 s.mute, FALSE)
                  control == ~Fails(f, "CastControl", d, i)
                  registered == control /\ h /\ ~Fails(f, "Register", d, i)
                  path == ~Fails(f, "ProcessPath", d, i)
                  info == AudioSessionInfo(s.pid,
                              IF path THEN "Resolved" ELSE "Unknown",
                              vol, mute, path, devid)
                  met == \/ ~sv \/ ~control \/ ~path
                         \/ Fails(f, "GetMasterVolume", d, i)
                         \/ Fails(f, "GetMute", d, i)
                         \/ (h /\ Fails(f, "Register", d, i))
              IN SessionLoop(w, f, h, d, devid, i + 1,
                     [acc EXCEPT !.out = Push(@, info),
                                 !.src = Append(@, <<d, i>>),
                                 !.reg = IF registered THEN @ \cup {<<d, i>>}
                                         ELSE @,
                                 !.met = @ \/ met])

\* the body of the outer loop for device d (mod.rs 110-206)
RECURSIVE DeviceLoop(_, _, _, _, _)
DeviceLoop(w, f, h, d, acc) ==
    IF d > Len(w) THEN acc
    ELSE IF \/ Fails(f, "Item", d, 0)
            \/ Fails(f, "GetId", d, 0)
            \/ Fails(f, "Activate", d, 0)
            \/ Fails(f, "GetSessionEnumerator", d, 0)
            \/ Fails(f, "SessionCount", d, 0)
         THEN [acc EXCEPT !.res = "Err", !.met = TRUE]
    ELSE LET bad == Fails(f, "IdToString", d, 0)
             devid == IF bad THEN 0 ELSE w[d].id
             r == SessionLoop(w, f, h, d, devid, 1,
                              [acc EXCEPT !.met = @ \/ bad])
         IN IF r.res = "Err" THEN r ELSE DeviceLoop(w, f, h, d + 1, r)

\* AudioManager::get_sessions: res/out are the returned Result, reg the
\* sessions on which a listener was registered before the call returned
get_sessions(w, f, h) ==
    LET start == [res |-> "Ok", out |-> <<>>, src |-> <<>>, reg |-> {},
                  met |-> FALSE]
    IN IF Fails(f, "EnumAudioEndpoints", 0, 0) \/ Fails(f, "GetCount", 0, 0)
       THEN [start EXCEPT !.res = "Err", !.met = TRUE]
       ELSE LET r == DeviceLoop(w, f, h, 1, start)
            IN IF r.res = "Err" THEN [r EXCEPT !.out = <<>>, !.src = <<>>]
               ELSE r

(* ------------------ AudioManager::apply_to_session --------------------- *)
NoTarget == <<0, 0>>

\* a search that leaves system audio alone
IsTarget_NotSystem(pid, target_pid) == pid = target_pid /\ pid # 0

\* mod.rs 274
IsTarget(pid, target_pid) == pid = target_pid

Failed == [res |-> "Err", hit |-> NoTarget, met |-> TRUE]

\* a search that reports a missing target as an error
NoMatchResult_NotFound(met) == [res |-> "Err", hit |-> NoTarget, met |-> met]

\* mod.rs 285-287: no session matched, the call still answers Ok(())
NoMatchResult(met) == [res |-> "Ok", hit |-> NoTarget, met |-> met]

\* the inner loop (mod.rs 268-281); res "Next" stands for falling out of it
RECURSIVE ApplySessionLoop(_, _, _, _, _, _)
ApplySessionLoop(w, f, target_pid, d, i, met) ==
    IF i > Len(w[d].sessions)
    THEN [res |-> "Next", hit |-> NoTarget, met |-> met]
    ELSE IF Fails(f, "GetSession", d, i) THEN Failed
    ELSE IF Fails(f, "CastControl2", d, i)
         THEN ApplySessionLoop(w, f, target_pid, d, i + 1, TRUE)
    ELSE IF Fails(f, "GetProcessId", d, i) THEN Failed
    ELSE IF IsTarget(w[d].sessions[i].pid, target_pid)
         THEN IF Fails(f, "CastSimpleVolume", d, i)
              THEN ApplySessionLoop(w, f, target_pid, d, i + 1, TRUE)
              ELSE IF Fails(f, "Action", d, i) THEN Failed
              ELSE [res |-> "Ok", hit |-> <<d, i>>, met |-> met]
    ELSE ApplySessionLoop(w, f, target_pid, d, i + 1, met)

\* the outer loop (mod.rs 261-282) and the final Ok(()) of line 287
RECURSIVE ApplyDeviceLoop(_, _, _, _, _)
ApplyDeviceLoop(w, f, target_pid, d, met) ==
    IF d > Len(w) THEN NoMatchResult(met)
    ELSE IF \/ Fails(f, "Item", d, 0)
            \/ Fails(f, "Activate", d, 0)
            \/ Fails(f, "GetSessionEnumerator", d, 0)
            \/ Fails(f, "SessionCount", d, 0)
         THEN Failed
    ELSE LET r == ApplySessionLoop(w, f, target_pid, d, 1, met)
         IN IF r.res = "Next"
            THEN ApplyDeviceLoop(w, f, target_pid, d + 1, r.met)
            ELSE r

\* res is the returned Result; hit the session the action was applied to
apply_to_session(w, f, target_pid) ==
    IF Fails(f, "EnumAudioEndpoints", 0, 0) \/ Fails(f, "GetCount", 0, 0)
    THEN Failed
    ELSE ApplyDeviceLoop(w, f, target_pid, 1, FALSE)

\* an action applied to every session of the target's process
SetMasterVolume_AllOfPid(w, hit, volume) ==
    IF hit = NoTarget THEN w
    ELSE [d \in 1 .. Len(w) |->
            [w[d] EXCEPT !.sessions =
                [i \in 1 .. Len(w[d].sessions) |->
                    IF w[d].sessions[i].pid = w[hit[1]].sessions[hit[2]].pid
                    THEN [w[d].sessions[i] EXCEPT !.vol = volume]
                    ELSE w[d].sessions[i]]]]

\* ISimpleAudioVolume::SetMasterVolume / SetMute on the session at hit
SetMasterVolume(w, hit, volume) ==
    IF hit = NoTarget THEN w
    ELSE [w EXCEPT ![hit[1]].sessions[hit[2]].vol = volume]

SetMute(w, hit, mute) ==
    IF hit = NoTarget THEN w
    ELSE [w EXCEPT ![hit[1]].sessions[hit[2]].mute = mute]

\* a registration that replaces the listener a session already has
RegisterAudioSessionNotification_Replace(w, reg) ==
    [d \in 1 .. Len(w) |->
        [w[d] EXCEPT !.sessions =
            [i \in 1 .. Len(w[d].sessions) |->
                IF <<d, i>> \in reg
                THEN [w[d].sessions[i] EXCEPT !.lis = 1]
                ELSE w[d].sessions[i]]]]

RegisterAudioSessionNotification(w, reg) ==
    [d \in 1 .. Len(w) |->
        [w[d] EXCEPT !.sessions =
            [i \in 1 .. Len(w[d].sessions) |->
                IF <<d, i>> \in reg
                THEN [w[d].sessions[i] EXCEPT !.lis = @ + 1]
                ELSE w[d].sessions[i]]]]

(* ------------------ AudioManager::get_audio_devices -------------------- *)
DeviceSitesDevices == {"Item", "GetId", "IdToString", "OpenPropertyStore",
                       "GetValue", "FriendlyName"}

AudioDeviceInfo(id, name) == [id |-> id, name |-> name]

\* the loop over the devices (mod.rs 312-351)
RECURSIVE DevicesLoop(_, _, _, _)
DevicesLoop(w, f, i, devices) ==
    IF i > Len(w) THEN [res |-> "Ok", out |-> devices]
    ELSE IF \/ Fails(f, "Item", i, 0)
            \/ Fails(f, "GetId", i, 0)
            \/ Fails(f, "OpenPropertyStore", i, 0)
            \/ Fails(f, "GetValue", i, 0)
         THEN [res |-> "Err", out |-> <<>>]
    ELSE LET id_string == IF Fails(f, "IdToString", i, 0) THEN 0 ELSE w[i].id
             name == IF Fails(f, "FriendlyName", i, 0) THEN "Unknown Device"
                     ELSE "Named"
         IN DevicesLoop(w, f, i + 1,
                        Append(devices, AudioDeviceInfo(id_string, name)))

get_audio_devices(w, f) ==
    IF Fails(f, "EnumAudioEndpoints", 0, 0) \/ Fails(f, "GetCount", 0, 0)
    THEN [res |-> "Err", out |-> <<>>]
    ELSE DevicesLoop(w, f, 1, <<>>)

(* -------------- policy.rs: AudioPolicyConfigFactory -------------------- *)
IID_21H2 == "ab3d4648-e242-459f-b02f-541c70306324"
IID_DOWNLEVEL == "2a59116d-6c4f-45e0-a74f-707e3fef9258"

flow_render == 0
role_console == 0
role_multimedia == 1
role_communications == 2

\* what one QueryInterface call can answer: an error, or success with the
\* pointer it stored (null or not)
QueryOutcomes == {"E_NOINTERFACE", "null", "ptr"}
\* what the read-back can answer: an error, the id just written, another id
ReadOutcomes == {"error", "same", "other"}

\* a negotiation that queries the older interface id unconditionally
TryDownlevel_Always(hr) == TRUE

\* policy.rs 106: the older interface id is tried only after an error
TryDownlevel(hr) == hr = "E_NOINTERFACE"

\* a negotiation that builds the handle from whatever pointer a successful
\* query stored
AudioPolicyConfigFactory_new_NoNullCheck(activated, q1, q2) ==
    LET c0 == <<<<"RoGetActivationFactory", activated>>>>
        c1 == Append(c0, <<"QueryInterface", IID_21H2, q1>>)
        c2 == Append(c1, <<"QueryInterface", IID_DOWNLEVEL, q2>>)
    IN IF ~activated THEN [factory |-> "none", calls |-> c0]
       ELSE IF TryDownlevel(q1)
            THEN IF q2 = "E_NOINTERFACE" THEN [factory |-> "none", calls |-> c2]
                 ELSE [factory |-> IID_DOWNLEVEL, calls |-> c2]
       ELSE [factory |-> IID_21H2, calls |-> c1]

\* AudioPolicyConfigFactory::new (policy.rs 83-131): activated says whether
\* RoGetActivationFactory succeeded, q1 and q2 what the query for IID_21H2
\* and for IID_DOWNLEVEL answers.  factory is the interface id the returned
\* handle was built from, "none" when new() returns an error.
AudioPolicyConfigFactory_new(activated, q1, q2) ==
    LET c0 == <<<<"RoGetActivationFactory", activated>>>>
        c1 == Append(c0, <<"QueryInterface", IID_21H2, q1>>)
        c2 == Append(c1, <<"QueryInterface", IID_DOWNLEVEL, q2>>)
    IN IF ~activated THEN [factory |-> "none", calls |-> c0]
       ELSE IF TryDownlevel(q1)
            THEN IF q2 = "E_NOINTERFACE" THEN [factory |-> "none", calls |-> c2]
                 ELSE IF q2 = "null" THEN [factory |-> "none", calls |-> c2]
                 ELSE [factory |-> IID_DOWNLEVEL, calls |-> c2]
       ELSE IF q1 = "null" THEN [factory |-> "none", calls |-> c1]
       ELSE [factory |-> IID_21H2, calls |-> c1]

\* a routing call that propagates every role's result
RoutingResult_All(hr1, hr2, hr3) == IF hr1 /\ hr2 /\ hr3 THEN "Ok" ELSE "Err"

\* policy.rs 197-199: only the console result is propagated with `?`
RoutingResult(hr1, hr2, hr3) == IF hr1 THEN "Ok" ELSE "Err"

\* a routing call whose read-back decides the result, made before any write
set_persisted_default_audio_endpoint_Verified(process_id, device_id, hr1, hr2, hr3, g) ==
    [res |-> IF g = "same" THEN "Ok" ELSE "Err",
     calls |-> <<
        <<"GetPersistedDefaultAudioEndpoint", process_id, flow_render,
          role_console, g>>,
        <<"SetPersistedDefaultAudioEndpoint", process_id, flow_render,
          role_console, device_id, hr1>>,
        <<"SetPersistedDefaultAudioEndpoint", process_id, flow_render,
          role_multimedia, device_id, hr2>>,
        <<"SetPersistedDefaultAudioEndpoint", process_id, flow_render,
          role_communications, device_id, hr3>> >>]

\* AudioPolicyConfigFactory::set_persisted_default_audio_endpoint
\* (policy.rs 133-203): hr1..hr3 say whether each write succeeded, g what the
\* read-back answered
set_persisted_default_audio_endpoint(process_id, device_id, hr1, hr2, hr3, g) ==
    [res |-> RoutingResult(hr1, hr2, hr3),
     calls |-> <<
        <<"SetPersistedDefaultAudioEndpoint", process_id, flow_render,
          role_console, device_id, hr1>>,
        <<"SetPersistedDefaultAudioEndpoint", process_id, flow_render,
          role_multimedia, device_id, hr2>>,
        <<"SetPersistedDefaultAudioEndpoint", process_id, flow_render,
          role_communications, device_id, hr3>>,
        <<"GetPersistedDefaultAudioEndpoint", process_id, flow_render,
          role_console, g>> >>]

\* AudioManager::set_audio_routing (mod.rs 291-295)
set_audio_routing(target_pid, device_id, activated, q1, q2, hr1, hr2, hr3, g) ==
    LET fac == AudioPolicyConfigFactory_new(activated, q1, q2) IN
    IF fac.factory = "none"
    THEN [res |-> "Err", factory |-> "none", calls |-> fac.calls]
    ELSE LET r == set_persisted_default_audio_endpoint(
                      target_pid, device_id, hr1, hr2, hr3, g)
         IN [res |-> r.res, factory |-> fac.factory,
             calls |-> fac.calls \o r.calls]

(* ---------------- events.rs: SessionEventsListener --------------------- *)
\* an Option: None, or Some(x)
None == <<>>
Some(x) == <<x>>

\* what a callback handed to app_handle.emit: nothing, or one payload
NoEvent == <<>>

AudioEventPayload(process_id, volume, mute, state) ==
    [process_id |-> process_id, volume |-> volume, mute |-> mute,
     state |-> state]

AudioSessionStateInactive == 0
AudioSessionStateActive == 1
AudioSessionStateExpired == 2

\* the AudioSessionState values a notification can carry
NewStates == 0 .. MaxState

\* a label table without the fallback
StateLabel_NoFallback(newstate) ==
    CASE newstate = AudioSessionStateInactive -> "Inactive"
      [] newstate = AudioSessionStateActive -> "Active"
      [] OTHER -> "Expired"

\* events.rs 89-94
StateLabel(newstate) ==
    CASE newstate = AudioSessionStateInactive -> "Inactive"
      [] newstate = AudioSessionStateActive -> "Active"
      [] newstate = AudioSessionStateExpired -> "Expired"
      [] OTHER -> "Unknown"

\* a callback that reports a failed emit to the remote caller
CallbackResult_Propagated(emit_ok) == IF emit_ok THEN "Ok" ELSE "Err"

\* events.rs 61, 67 and 102, 109: `let _ = emit(..)`, then Ok(())
CallbackResult(emit_ok) == "Ok"

\* a callback that publishes nothing (events.rs 36, 44, 77, 85, 120)
Acknowledge(name, process_id) ==
    [callback |-> name, process_id |-> process_id, args |-> <<>>,
     ret |-> "Ok", emitted |-> NoEvent, delivered |-> FALSE]

\* a callback called with args that hands payload to app_handle.emit; emit_ok
\* says whether the host's event channel took it
Emit(name, process_id, args, payload, emit_ok) ==
    [callback |-> name, process_id |-> process_id, args |-> args,
     ret |-> CallbackResult(emit_ok), emitted |-> <<payload>>,
     delivered |-> emit_ok]

(* ------------------------------ state ---------------------------------- *)
NoOp == [op |-> "none", pid |-> 0, volume |-> 0, mute |-> FALSE,
         fault |-> NoFault, res |-> "Ok", out |-> <<>>, src |-> <<>>]

NoRoute == [op |-> "none", pid |-> 0, device_id |-> 0, res |-> "Ok",
            factory |-> "none", calls |-> <<>>]

\* no callback has been delivered yet
NoCallback == [callback |-> "none", process_id |-> 0, args |-> <<>>,
               ret |-> "Ok", emitted |-> NoEvent, delivered |-> FALSE]

\* the subsystem has notified no change yet: notified holds, for the last
\* change of a session, the record of each callback it called
NoChange == <<>>

Threads == 1 .. MaxThreads

\* an AudioManager that exists and that no worker is using
Constructed ==
    /\ mutex = 0
    /\ manager = TRUE
    /\ pc = [t \in Threads |-> "idle"]

\* the positions <<d, i>> of a world's sessions, and the session at one
Positions(w) ==
    UNION {{<<d, i>> : i \in 1 .. Len(w[d].sessions)} : d \in 1 .. Len(w)}

At(w, pos) == w[pos[1]].sessions[pos[2]]

\* listeners that are called back only while the mutex is free
Listened_WhenUnlocked(w) ==
    IF mutex = 0 THEN {pos \in Positions(w) : At(w, pos).lis > 0} ELSE {}

\* the sessions a SessionEventsListener is registered on
Listened(w) == {pos \in Positions(w) : At(w, pos).lis > 0}

\* the devices of a world: t sessions in enumeration order, session k on
\* device devOf[k], devOf nondecreasing
DeviceOf(n, flat, devOf) ==
    [d \in 1 .. n |->
        [id |-> d,
         sessions |-> LET ks == {k \in DOMAIN flat : devOf[k] = d}
                          lo == Cardinality({k \in DOMAIN flat : devOf[k] < d})
                      IN [i \in 1 .. Cardinality(ks) |-> flat[lo + i]]]]

\* every subsystem of at most maxdev devices and maxtotal sessions drawn
\* from objects
WorldsOf(maxdev, maxtotal, objects) ==
    UNION {UNION {{DeviceOf(n, flat, devOf) :
                      flat \in [1 .. t -> objects],
                      devOf \in {g \in [1 .. t -> 1 .. n] :
                                   \A k \in 1 .. t - 1 : g[k] <= g[k + 1]}}
                    : t \in 0 .. (IF n = 0 THEN 0 ELSE maxtotal)}
             : n \in 0 .. maxdev}

Worlds(maxdev, maxtotal) == WorldsOf(maxdev, maxtotal, SessionObjects)

Init ==
    /\ world \in Worlds(MaxDev, MaxTotal)
    /\ app_handle = FALSE
    /\ last = NoOp
    /\ plast = NoRoute
    /\ cb = NoCallback
    /\ notified = NoChange
    /\ Constructed

\* the host issues one command at a time: last is the Result on its way back
Idle == last.op = "none" /\ plast.op = "none"

ListenersBelow(cap) ==
    app_handle =>
        \A d \in 1 .. Len(world) : \A i \in 1 .. Len(world[d].sessions) :
            world[d].sessions[i].lis < cap

ListenersBelowCap == ListenersBelow(MaxListeners)

\* the get_audio_sessions command's call of AudioManager::get_sessions; the
\* failing call site f is one the call executes
get_audio_sessions(cap) ==
    /\ Idle
    /\ ListenersBelow(cap)
    /\ \E f \in FaultPoints(world, DeviceSitesList, SessionSitesList) :
        /\ LET r == get_sessions(world, f, app_handle) IN
            /\ f = NoFault \/ r.met
            /\ world' = RegisterAudioSessionNotification(world, r.reg)
            /\ last' = [op |-> "get_sessions", pid |-> 0, volume |-> 0,
                        mute |-> FALSE, fault |-> f, res |-> r.res,
                        out |-> r.out, src |-> r.src]
        /\ UNCHANGED <<app_handle, plast, cb, notified, hostvars>>

\* a listing while no session has MaxListeners listeners yet
GetSessions == get_audio_sessions(MaxListeners)

\* a listing while no session has MaxListings listeners yet
GetSessionsAgain == get_audio_sessions(MaxListings)

\* AudioManager::set_session_volume called with a volume out of volumes
set_session_volume(volumes) ==
    /\ Idle
    /\ \E target_pid \in Pids, volume \in volumes,
          f \in FaultPoints(world, DeviceSitesApply, SessionSitesApply) :
        /\ LET r == apply_to_session(world, f, target_pid) IN
            /\ f = NoFault \/ r.met
            /\ world' = SetMasterVolume(world, r.hit, volume)
            /\ last' = [op |-> "set_session_volume", pid |-> target_pid,
                        volume |-> volume, mute |-> FALSE, fault |-> f,
                        res |-> r.res, out |-> <<>>, src |-> <<>>]
        /\ UNCHANGED <<app_handle, plast, cb, notified, hostvars>>

\* the set_session_volume command with a volume inside [0.0, 1.0]
SetSessionVolume == set_session_volume(Vols)

\* the set_session_volume command with any volume the host can send
SetSessionVolumeAny == set_session_volume(VolumeArgs)

\* AudioManager::set_session_mute
SetSessionMute ==
    /\ Idle
    /\ \E target_pid \in Pids, mute \in BOOLEAN,
          f \in FaultPoints(world, DeviceSitesApply, SessionSitesApply) :
        /\ LET r == apply_to_session(world, f, target_pid) IN
            /\ f = NoFault \/ r.met
            /\ world' = SetMute(world, r.hit, mute)
            /\ last' = [op |-> "set_session_mute", pid |-> target_pid,
                        volume |-> 0, mute |-> mute, fault |-> f,
                        res |-> r.res, out |-> <<>>, src |-> <<>>]
        /\ UNCHANGED <<app_handle, plast, cb, notified, hostvars>>

\* the answers of the remote calls are inputs only for the calls that are
\* made: a call that is not reached has the fixed answer of the first choice
Answered(activated, q1, q2, hr1, hr2, hr3, g) ==
    LET fac == AudioPolicyConfigFactory_new(activated, q1, q2) IN
    /\ Len(fac.calls) < 2 => q1 = "ptr"
    /\ Len(fac.calls) < 3 => q2 = "ptr"
    /\ fac.factory = "none" => (hr1 /\ hr2 /\ hr3 /\ g = "same")

\* the set_audio_routing command's call of AudioManager::set_audio_routing;
\* the answers are those of the calls it makes
SetAudioRouting ==
    /\ Idle
    /\ \E target_pid \in Pids, device_id \in DeviceIds, activated \in BOOLEAN,
          q1 \in QueryOutcomes, q2 \in QueryOutcomes,
          hr1 \in BOOLEAN, hr2 \in BOOLEAN, hr3 \in BOOLEAN, g \in ReadOutcomes :
        /\ Answered(activated, q1, q2, hr1, hr2, hr3, g)
        /\ LET r == set_audio_routing(target_pid, device_id, activated, q1, q2,
                                      hr1, hr2, hr3, g)
           IN plast' = [op |-> "set_audio_routing", pid |-> target_pid,
                        device_id |-> device_id, res |-> r.res,
                        factory |-> r.factory, calls |-> r.calls]
        /\ UNCHANGED <<world, app_handle, last, cb, notified, hostvars>>

\* the get_audio_devices command's call of AudioManager::get_audio_devices
GetAudioDevices ==
    /\ Idle
    /\ \E f \in FaultPoints(world, DeviceSitesDevices, {}) :
        /\ LET r == get_audio_devices(world, f) IN
            last' = [op |-> "get_audio_devices", pid |-> 0, volume |-> 0,
                     mute |-> FALSE, fault |-> f, res |-> r.res,
                     out |-> r.out, src |-> <<>>]
        /\ UNCHANGED <<world, app_handle, plast, cb, notified, hostvars>>

(* ----------------- lib.rs: AudioState::with_manager -------------------- *)
\* a lock() that does not wait for the mutex
MutexFree_Always == TRUE

\* lib.rs 25: lock() returns once no other worker holds the mutex
MutexFree == mutex = 0

Holder(t) == mutex = t

\* a command is invoked on worker t: init_com (lib.rs 24), then lock()
Invoke ==
    \E t \in Threads :
        /\ pc[t] = "idle"
        /\ pc' = [pc EXCEPT ![t] = "lock"]
        /\ UNCHANGED <<world, app_handle, last, plast, cb, notified, mutex, manager>>

\* lib.rs 25: worker t acquires the mutex
Lock ==
    \E t \in Threads :
        /\ pc[t] = "lock"
        /\ MutexFree
        /\ mutex' = t
        /\ pc' = [pc EXCEPT ![t] = "locked"]
        /\ UNCHANGED <<world, app_handle, last, plast, cb, notified, manager>>

\* lib.rs 26-30: the manager is created on first use, under the mutex; created
\* says whether AudioManager::new succeeded; on failure the command returns
\* and the guard is dropped
Create ==
    \E t \in Threads, created \in BOOLEAN :
        /\ pc[t] = "locked" /\ Holder(t)
        /\ IF manager
           THEN /\ pc' = [pc EXCEPT ![t] = "call"]
                /\ UNCHANGED <<app_handle, manager, mutex>>
           ELSE IF created
           THEN /\ manager' = TRUE
                /\ app_handle' = TRUE
                /\ pc' = [pc EXCEPT ![t] = "call"]
                /\ UNCHANGED mutex
           ELSE /\ mutex' = 0
                /\ pc' = [pc EXCEPT ![t] = "idle"]
                /\ UNCHANGED <<app_handle, manager>>
        /\ UNCHANGED <<world, last, plast, cb, notified>>

\* lib.rs 31-32: f(manager), the command's closure f, run by the worker that
\* holds the mutex
with_manager(f) ==
    /\ \E t \in Threads : pc[t] = "call" /\ Holder(t)
    /\ f

\* the five commands that go through with_manager (lib.rs 39-103)
Call ==
    \/ with_manager(GetSessions)
    \/ with_manager(SetSessionVolume)
    \/ with_manager(SetSessionMute)
    \/ with_manager(SetAudioRouting)
    \/ with_manager(GetAudioDevices)

\* the three commands that reach the sessions of the mixer
CallMixer ==
    \/ with_manager(GetSessions)
    \/ with_manager(SetSessionVolume)
    \/ with_manager(SetSessionMute)

\* with_manager returns the closure's Result and the guard is dropped
Return ==
    \E t \in Threads :
        /\ pc[t] = "call" /\ Holder(t)
        /\ ~Idle
        /\ last' = NoOp
        /\ plast' = NoRoute
        /\ mutex' = 0
        /\ pc' = [pc EXCEPT ![t] = "idle"]
        /\ UNCHANGED <<world, app_handle, cb, notified, manager>>

\* the command returns its Result to the host (lib.rs: the value of
\* with_manager is the command's return value)
Respond ==
    /\ ~Idle
    /\ last' = NoOp
    /\ plast' = NoRoute
    /\ UNCHANGED <<world, app_handle, cb, notified, hostvars>>

(* ---------- the callbacks of a registered SessionEventsListener -------- *)
\* delivered by the audio subsystem on its own thread to a listener whose
\* process_id field holds the process id read when it was registered
OnDisplayNameChanged ==
    \E pos \in Listened(world) :
        /\ cb' = Acknowledge("OnDisplayNameChanged", At(world, pos).pid)
        /\ UNCHANGED <<world, app_handle, last, plast, notified, hostvars>>

OnIconPathChanged ==
    \E pos \in Listened(world) :
        /\ cb' = Acknowledge("OnIconPathChanged", At(world, pos).pid)
        /\ UNCHANGED <<world, app_handle, last, plast, notified, hostvars>>

OnSimpleVolumeChanged ==
    \E pos \in Listened(world), newvolume \in Vols, newmute \in BOOLEAN,
       emit_ok \in BOOLEAN :
        /\ cb' = Emit("OnSimpleVolumeChanged", At(world, pos).pid,
                      <<newvolume, newmute>>,
                      AudioEventPayload(At(world, pos).pid, Some(newvolume),
                                        Some(newmute), None),
                      emit_ok)
        /\ UNCHANGED <<world, app_handle, last, plast, notified, hostvars>>

OnChannelVolumeChanged ==
    \E pos \in Listened(world) :
        /\ cb' = Acknowledge("OnChannelVolumeChanged", At(world, pos).pid)
        /\ UNCHANGED <<world, app_handle, last, plast, notified, hostvars>>

OnGroupingParamChanged ==
    \E pos \in Listened(world) :
        /\ cb' = Acknowledge("OnGroupingParamChanged", At(world, pos).pid)
        /\ UNCHANGED <<world, app_handle, last, plast, notified, hostvars>>

OnStateChanged ==
    \E pos \in Listened(world), newstate \in NewStates, emit_ok \in BOOLEAN :
        /\ cb' = Emit("OnStateChanged", At(world, pos).pid, <<newstate>>,
                      AudioEventPayload(At(world, pos).pid, None, None,
                                        Some(StateLabel(newstate))),
                      emit_ok)
        /\ UNCHANGED <<world, app_handle, last, plast, notified, hostvars>>

OnSessionDisconnected ==
    \E pos \in Listened(world) :
        /\ cb' = Acknowledge("OnSessionDisconnected", At(world, pos).pid)
        /\ UNCHANGED <<world, app_handle, last, plast, notified, hostvars>>

Callbacks ==
    \/ OnDisplayNameChanged
    \/ OnIconPathChanged
    \/ OnSimpleVolumeChanged
    \/ OnChannelVolumeChanged
    \/ OnGroupingParamChanged
    \/ OnStateChanged
    \/ OnSessionDisconnected


(* ------------- a change of a session, as the subsystem notifies it ----- *)
\* the listeners registered on the session at pos: one for every
\* RegisterAudioSessionNotification made on it (mod.rs 171); nothing in the
\* program unregisters one
Listeners(w, pos) == At(w, pos).lis

\* one change of the volume or mute of a session: the subsystem calls
\* OnSimpleVolumeChanged once on each listener registered on the session,
\* with the volume and mute the session now has; emit_ok[k] says whether the
\* host's event channel took the k-th event
NotifySimpleVolumeChanged ==
    \E pos \in Listened(world) :
        \E emit_ok \in [1 .. Listeners(world, pos) -> BOOLEAN] :
            /\ notified' =
                  [k \in 1 .. Listeners(world, pos) |->
                      Emit("OnSimpleVolumeChanged", At(world, pos).pid,
                           <<At(world, pos).vol, At(world, pos).mute>>,
                           AudioEventPayload(At(world, pos).pid,
                                             Some(At(world, pos).vol),
                                             Some(At(world, pos).mute),
                                             None),
                           emit_ok[k])]
            /\ cb' = notified'[Listeners(world, pos)]
            /\ UNCHANGED <<world, app_handle, last, plast, hostvars>>

\* one change of the state of a session: the subsystem calls OnStateChanged
\* once on each listener registered on the session
NotifyStateChanged ==
    \E pos \in Listened(world), newstate \in NewStates :
        \E emit_ok \in [1 .. Listeners(world, pos) -> BOOLEAN] :
            /\ notified' =
                  [k \in 1 .. Listeners(world, pos) |->
                      Emit("OnStateChanged", At(world, pos).pid, <<newstate>>,
                           AudioEventPayload(At(world, pos).pid, None, None,
                                             Some(StateLabel(newstate))),
                           emit_ok[k])]
            /\ cb' = notified'[Listeners(world, pos)]
            /\ UNCHANGED <<world, app_handle, last, plast, hostvars>>


Next ==
    \/ GetSessions
    \/ SetSessionVolume
    \/ SetSessionMute
    \/ Respond

Spec == Init /\ [][Next]_vars

\* the routing controller alone, over a subsystem with no active device
InitPolicy ==
    /\ world = <<>>
    /\ app_handle = FALSE
    /\ last = NoOp
    /\ plast = NoRoute
    /\ cb = NoCallback
    /\ notified = NoChange
    /\ Constructed

NextPolicy ==
    \/ SetAudioRouting
    \/ Respond

SpecPolicy == InitPolicy /\ [][NextPolicy]_vars

\* one application playing at full volume
OneApp == [pid : {MaxPid}, state : {"Active"}, vol : {MaxVol},
           mute : {FALSE}, lis : {0}]

\* the host: workers invoking commands on the shared AudioState, from the
\* state run() leaves it in (lib.rs 210: Mutex::new(None)), over a subsystem
\* of at most one device and one session
InitHost ==
    /\ world \in WorldsOf(1, 1, OneApp)
    /\ app_handle = FALSE
    /\ last = NoOp
    /\ plast = NoRoute
    /\ cb = NoCallback
    /\ notified = NoChange
    /\ mutex = 0
    /\ manager = FALSE
    /\ pc = [t \in Threads |-> "idle"]

NextHost ==
    \/ Invoke
    \/ Lock
    \/ Create
    \/ Call
    \/ Return

SpecHost == InitHost /\ [][NextHost]_vars

\* the workers and, on the subsystem's thread, the callbacks of the listeners
\* their listings register
NextHostBridge ==
    \/ Invoke
    \/ Lock
    \/ Create
    \/ CallMixer
    \/ Return
    \/ Callbacks

SpecHostBridge == InitHost /\ [][NextHostBridge]_vars

\* the sessions of running, unmuted applications
PlayingObjects == [pid : Pids, state : {"Active"}, vol : Vols,
                   mute : {FALSE}, lis : {0}]

\* the sessions of running applications, muted or not
LiveObjects == [pid : Pids, state : {"Active"}, vol : Vols,
                mute : BOOLEAN, lis : {0}]

\* listings alone, made by a manager with the app handle set (lib.rs 27-29)
\* or without it (mod.rs 67-76), over one device with up to two sessions
InitListing ==
    /\ world \in WorldsOf(1, 2, LiveObjects)
    /\ app_handle \in BOOLEAN
    /\ last = NoOp
    /\ plast = NoRoute
    /\ cb = NoCallback
    /\ notified = NoChange
    /\ Constructed

NextListing ==
    \/ GetSessions
    \/ Respond

SpecListing == InitListing /\ [][NextListing]_vars

\* applications playing at full volume
Apps == [pid : Pids \ {0}, state : {"Active"}, vol : {MaxVol},
         mute : {FALSE}, lis : {0}]

\* the event bridge: listings made with the app handle set and the callbacks
\* the subsystem delivers to the listeners they register, over one device
\* with up to two sessions
InitBridge ==
    /\ world \in WorldsOf(1, 2, Apps)
    /\ app_handle = TRUE
    /\ last = NoOp
    /\ plast = NoRoute
    /\ cb = NoCallback
    /\ notified = NoChange
    /\ Constructed

NextBridge ==
    \/ GetSessions
    \/ Respond
    \/ Callbacks

SpecBridge == InitBridge /\ [][NextBridge]_vars

\* applications and system audio, playing, not yet listened to
Players == [pid : Pids, state : {"Active"}, vol : {MaxVol}, mute : {FALSE},
            lis : {0}]

\* repeated listings, with or without the app handle, and the changes the
\* subsystem notifies to the listeners they leave registered, over one
\* device with up to two sessions
InitListeners ==
    /\ world \in WorldsOf(1, 2, Players)
    /\ app_handle \in BOOLEAN
    /\ last = NoOp
    /\ plast = NoRoute
    /\ cb = NoCallback
    /\ notified = NoChange
    /\ Constructed

NextListeners ==
    \/ GetSessionsAgain
    \/ Respond
    \/ NotifySimpleVolumeChanged
    \/ NotifyStateChanged

SpecListeners == InitListeners /\ [][NextListeners]_vars

\* the volume command alone, with every f32 argument the host can send
InitVolume ==
    /\ world \in WorldsOf(MaxDev, MaxTotal, PlayingObjects)
    /\ app_handle = FALSE
    /\ last = NoOp
    /\ plast = NoRoute
    /\ cb = NoCallback
    /\ notified = NoChange
    /\ Constructed

NextVolume ==
    \/ SetSessionVolumeAny
    \/ Respond

SpecVolume == InitVolume /\ [][NextVolume]_vars

(* ============================ properties =============================== *)
\* enumeration order: device first, session within the device second
Before(p, q) == p[1] < q[1] \/ (p[1] = q[1] /\ p[2] < q[2])

Listed(w) ==
    {pos \in Positions(w) : At(w, pos).pid # 0 /\ At(w, pos).state # "Expired"}

Listing == last.op = "get_sessions"

\* C1: no entry returned by get_sessions has process id 0; no entry was read
\* from a session whose process id is 0.
C1_NoSystemSessionListed ==
    Listing =>
        \A k \in 1 .. Len(last.out) :
            /\ last.out[k].process_id # 0
            /\ At(world, last.src[k]).pid # 0

\* C1 witness: a listing that returned entries although the subsystem holds a
\* session of process id 0.
C1_Witness ==
    /\ Listing /\ last.res = "Ok" /\ Len(last.out) > 0
    /\ \E pos \in Positions(world) : At(world, pos).pid = 0

\* C2: no entry returned by get_sessions was read from a session whose state
\* was Expired during that listing.
C2_NoExpiredListed ==
    Listing =>
        \A k \in 1 .. Len(last.out) :
            /\ At(world, last.src[k]).state # "Expired"
            /\ At(world, last.src[k]).pid = last.out[k].process_id

\* C2 witness: a listing that returned entries although the subsystem holds an
\* Expired session of a process other than 0.
C2_Witness ==
    /\ Listing /\ last.res = "Ok" /\ Len(last.out) > 0
    /\ \E pos \in Positions(world) :
          At(world, pos).pid # 0 /\ At(world, pos).state = "Expired"

SetOps == {"set_session_volume", "set_session_mute"}

PidListed(w, p) == \E pos \in Listed(w) : At(w, pos).pid = p

Matching(w, p) == {pos \in Positions(w) : At(w, pos).pid = p}

NoMatch(w, p) == Matching(w, p) = {}

First(S) == CHOOSE p \in S : \A q \in S \ {p} : Before(p, q)

Changed(w, w2) ==
    {pos \in Positions(w) : \/ At(w, pos).vol # At(w2, pos).vol
                            \/ At(w, pos).mute # At(w2, pos).mute}

\* C4: for a pid with a listed session, after set_session_volume(pid, v) has
\* returned Ok with no remote call failing, the next listing shows a session of
\* that pid with volume v, and a second set_session_volume(pid, v) changes
\* nothing.
C4_SetVolumeShown ==
    (/\ last.op = "set_session_volume" /\ last.res = "Ok"
     /\ last.fault = NoFault /\ PidListed(world, last.pid)) =>
        LET shown == get_sessions(world, NoFault, app_handle).out
            again == SetMasterVolume(world,
                         apply_to_session(world, NoFault, last.pid).hit,
                         last.volume)
        IN /\ \E k \in 1 .. Len(shown) :
                 shown[k].process_id = last.pid /\ shown[k].volume = last.volume
           /\ again = world

\* C5: for a pid with a listed session, after set_session_mute(pid, true) has
\* returned Ok with no remote call failing, the next listing shows a session of
\* that pid muted and with the volume it was listed with before; set_session_mute
\* changes no volume and set_session_volume changes no mute flag.
C5_MuteShownVolumeKept ==
    [][/\ (/\ last'.op = "set_session_mute" /\ last'.res = "Ok"
           /\ last'.fault = NoFault /\ last'.mute
           /\ PidListed(world, last'.pid)) =>
              LET before == get_sessions(world, NoFault, app_handle).out
                  after == get_sessions(world', NoFault, app_handle).out
              IN \E k \in 1 .. Len(after) :
                    /\ after[k].process_id = last'.pid
                    /\ after[k].is_muted
                    /\ after[k].volume = before[k].volume
       /\ last'.op = "set_session_mute" =>
              \A pos \in Positions(world) :
                  At(world', pos).vol = At(world, pos).vol
       /\ last'.op = "set_session_volume" =>
              \A pos \in Positions(world) :
                  At(world', pos).mute = At(world, pos).mute]_vars

\* the calls of apply_to_session whose error is propagated with `?`
PropagatedApply ==
    EnumSites \cup DeviceSitesApply \cup {"GetSession", "GetProcessId"}

C7_OnlyFirstMatch ==
    [][last'.op \in SetOps =>
          Changed(world, world') \subseteq
              (IF NoMatch(world, last'.pid) THEN {}
               ELSE {First(Matching(world, last'.pid))})]_vars

\* the matching sessions whose interface queries succeed
Applicable(w, p, f) ==
    {pos \in Matching(w, p) :
        /\ f # <<"CastControl2", pos[1], pos[2]>>
        /\ f # <<"CastSimpleVolume", pos[1], pos[2]>>}

\* C7 amended: one set call changes at most one session: the first one, in
\* device then session order, that matches pid and whose session-control and
\* simple-volume interfaces can be obtained; a call that returns Ok has set
\* that session; every other session keeps its volume and mute.
C7_OnlyFirstApplicable ==
    [][last'.op \in SetOps =>
          LET app == Applicable(world, last'.pid, last'.fault) IN
          /\ Changed(world, world') \subseteq
                 (IF app = {} THEN {} ELSE {First(app)})
          /\ (last'.res = "Ok" /\ app # {}) =>
                 IF last'.op = "set_session_volume"
                 THEN At(world', First(app)).vol = last'.volume
                 ELSE At(world', First(app)).mute = last'.mute]_vars

\* C7 witness: a process with a session on each of two devices after a
\* set_session_volume: the first device's session has the volume set, the
\* second device's session another one.
C7_Witness ==
    /\ last.op = "set_session_volume" /\ last.res = "Ok"
    /\ Len(world) = 2
    /\ Len(world[1].sessions) = 1 /\ Len(world[2].sessions) = 1
    /\ world[1].sessions[1].pid = last.pid
    /\ world[2].sessions[1].pid = last.pid
    /\ world[1].sessions[1].vol = last.volume
    /\ world[2].sessions[1].vol # last.volume

(* ------------------------- routing controller -------------------------- *)
Routing == plast.op = "set_audio_routing"

\* the candidate interface ids, newest first
Candidates == <<IID_21H2, IID_DOWNLEVEL>>

Queries == SelectSeq(plast.calls, LAMBDA c : c[1] = "QueryInterface")

Writes ==
    SelectSeq(plast.calls, LAMBDA c : c[1] = "SetPersistedDefaultAudioEndpoint")

Succeeded(c) == c[3] # "E_NOINTERFACE"

QueriedInOrder ==
    /\ Len(Queries) <= Len(Candidates)
    /\ \A k \in 1 .. Len(Queries) :
          /\ Queries[k][2] = Candidates[k]
          /\ \A j \in 1 .. k - 1 : ~Succeeded(Queries[j])
    /\ plast.calls[1][2] => Len(Queries) >= 1

\* C8 as stated: the candidates are queried strictly in order, a later one only
\* if every earlier one failed, none after the first success, and the handle
\* built from the first candidate whose query succeeds is returned.
C8_FirstSuccessReturned ==
    Routing =>
        /\ QueriedInOrder
        /\ \A k \in 1 .. Len(Queries) :
              Succeeded(Queries[k]) => plast.factory = Queries[k][2]

\* C8 amended: the candidates are queried strictly in order, a later one only
\* if every earlier one failed, none after the first success; the handle built
\* from the first candidate whose query succeeds is returned when that query
\* stored a non-null pointer, and an error is returned when it stored a null
\* pointer or when no query succeeded.
C8_FirstUsableReturned ==
    Routing =>
        /\ QueriedInOrder
        /\ \A k \in 1 .. Len(Queries) :
              Succeeded(Queries[k]) =>
                  plast.factory = (IF Queries[k][3] = "ptr" THEN Queries[k][2]
                                   ELSE "none")
        /\ (\A k \in 1 .. Len(Queries) : ~Succeeded(Queries[k])) =>
              plast.factory = "none"

\* C8 witness: the newest interface id is refused, the older one is granted,
\* and the handle comes from the older one.
C8_Witness ==
    /\ Routing
    /\ Len(Queries) = 2
    /\ ~Succeeded(Queries[1]) /\ Queries[2][3] = "ptr"
    /\ plast.factory = IID_DOWNLEVEL

ThreeRoleWrites ==
    /\ Len(Writes) = 3
    /\ \A k \in 1 .. 3 :
          /\ Writes[k][2] = plast.pid
          /\ Writes[k][3] = flow_render
          /\ Writes[k][5] = plast.device_id
    /\ Writes[1][4] = role_console
    /\ Writes[2][4] = role_multimedia
    /\ Writes[3][4] = role_communications
    /\ Writes[1][6] => plast.res = "Ok"

\* C9 as stated: set_audio_routing issues exactly three writes, one per role in
\* the order console, multimedia, communications, all with the same pid, render
\* direction and device id, and returns Ok whenever the console write succeeds.
C9_ThreeWrites == Routing => ThreeRoleWrites

\* C9 amended: once the policy interface has been obtained, set_audio_routing
\* issues exactly three writes, one per role in the order console, multimedia,
\* communications, all with the same pid, render direction and device id, and
\* returns Ok whenever the console write succeeds; when the interface cannot be
\* obtained it issues no write and returns an error.
C9_ThreeWritesOnceNegotiated ==
    Routing =>
        IF plast.factory # "none" THEN ThreeRoleWrites
        ELSE Len(Writes) = 0 /\ plast.res = "Err"

\* C9 witness: the console write succeeds, the multimedia and communications
\* writes fail, and the call returns Ok.
C9_Witness ==
    /\ Routing /\ Len(Writes) = 3
    /\ Writes[1][6] /\ ~Writes[2][6] /\ ~Writes[3][6]
    /\ plast.res = "Ok"

\* the calls made to the policy store, in the order they were made
StoreCalls ==
    SelectSeq(plast.calls,
              LAMBDA c : c[1] \in {"SetPersistedDefaultAudioEndpoint",
                                    "GetPersistedDefaultAudioEndpoint"})

WritesThenReadBack ==
    /\ Len(StoreCalls) = 4
    /\ \A k \in 1 .. 3 : StoreCalls[k][1] = "SetPersistedDefaultAudioEndpoint"
    /\ StoreCalls[1][4] = role_console
    /\ StoreCalls[2][4] = role_multimedia
    /\ StoreCalls[3][4] = role_communications
    /\ StoreCalls[4][1] = "GetPersistedDefaultAudioEndpoint"
    /\ StoreCalls[4][2] = plast.pid
    /\ StoreCalls[4][4] = role_console

ConsoleWriteDecides ==
    /\ Len(StoreCalls) >= 1
    /\ (plast.res = "Err") <=> ~StoreCalls[1][6]

\* C18 as stated: set_audio_routing always issues the three role writes and
\* then one console read-back, in that order, even when the console write
\* failed; it returns an error if and only if the console write failed,
\* whatever the read-back answered.
C18_ConsoleWriteAlone == Routing => (WritesThenReadBack /\ ConsoleWriteDecides)

\* C18 amended: once the policy interface has been obtained, set_audio_routing
\* issues the three role writes and then one console read-back, in that order,
\* even when the console write failed, and returns an error if and only if the
\* console write failed, whatever the read-back answered; when the interface
\* cannot be obtained it returns an error without any call to the store.
C18_ConsoleWriteAloneOnceNegotiated ==
    Routing =>
        IF plast.factory # "none"
        THEN WritesThenReadBack /\ ConsoleWriteDecides
        ELSE Len(StoreCalls) = 0 /\ plast.res = "Err"

\* C18 witness: the console write succeeded, the read-back failed, and the
\* call returned Ok after all four calls.
C18_Witness ==
    /\ Routing /\ Len(StoreCalls) = 4
    /\ StoreCalls[1][6]
    /\ StoreCalls[4][5] = "error"
    /\ plast.res = "Ok"

(* --------------------------- failure isolation ------------------------- *)
DeviceFailures == {"Item", "GetId", "Activate", "GetSessionEnumerator",
                   "SessionCount"}
SessionFailures == {"GetSession", "GetProcessId", "GetState"}

\* the listed sessions a failure confined to one device or session spares
Spared(w, f) ==
    {pos \in Listed(w) :
        /\ ~(f[1] \in DeviceFailures /\ f[2] = pos[1])
        /\ ~(f[1] \in SessionFailures /\ f[2] = pos[1] /\ f[3] = pos[2])}

\* C10: a failure confined to one device or one session never aborts
\* get_sessions: the remaining devices and sessions are still enumerated and
\* returned, and an error is returned only when the active devices cannot be
\* enumerated at all.
C10_FailuresIsolated ==
    Listing =>
        /\ last.res = "Err" => last.fault[1] \in EnumSites
        /\ last.fault[1] \notin EnumSites =>
              Spared(world, last.fault)
                  \subseteq {last.src[k] : k \in 1 .. Len(last.src)}

(* ------------------------------ volume range --------------------------- *)
InRange(v) == 0 <= v /\ v <= MaxVol

\* C11: a set_session_volume whose volume is outside [0.0, 1.0] is rejected or
\* clamped: a call with such a volume that returned Ok was applied to no
\* session, and after any sequence of set_session_volume calls the volume of
\* every session is inside [0.0, 1.0].
C11_VolumeStaysInRange ==
    /\ \A pos \in Positions(world) : InRange(At(world, pos).vol)
    /\ (/\ last.op = "set_session_volume" /\ last.res = "Ok"
        /\ ~InRange(last.volume)) =>
           apply_to_session(world, NoFault, last.pid).hit = NoTarget

(* ------------------------------ event bridge --------------------------- *)
Delivered == cb.callback # "none"

\* C12: every callback of a listener returns Ok to the remote caller, whether
\* or not it emits and whether or not the emit succeeded; a failed emit is
\* discarded.
C12_CallbacksReturnOk == Delivered => cb.ret = "Ok"

\* C12 witness: a simple-volume callback whose emit failed and that returned
\* Ok all the same.
C12_Witness ==
    /\ cb.callback = "OnSimpleVolumeChanged"
    /\ cb.emitted # NoEvent /\ ~cb.delivered
    /\ cb.ret = "Ok"

\* the label the claim gives each lifecycle state
LabelOf(newstate) ==
    IF newstate = AudioSessionStateActive THEN "Active"
    ELSE IF newstate = AudioSessionStateInactive THEN "Inactive"
    ELSE IF newstate = AudioSessionStateExpired THEN "Expired"
    ELSE "Unknown"

\* C13: only OnSimpleVolumeChanged and OnStateChanged publish an event, the
\* other five callbacks publish nothing.  A simple-volume event carries the
\* listener's process id, the new volume and mute, and no state; a state event
\* carries the listener's process id, the label of the new state (Active,
\* Inactive, Expired, else Unknown), and no volume or mute.
C13_OnlyVolumeAndStatePublish ==
    Delivered =>
        IF cb.callback = "OnSimpleVolumeChanged"
        THEN cb.emitted = <<[process_id |-> cb.process_id,
                             volume |-> Some(cb.args[1]),
                             mute |-> Some(cb.args[2]), state |-> None]>>
        ELSE IF cb.callback = "OnStateChanged"
        THEN cb.emitted = <<[process_id |-> cb.process_id, volume |-> None,
                             mute |-> None,
                             state |-> Some(LabelOf(cb.args[1]))]>>
        ELSE cb.emitted = NoEvent

\* C13 witness: a state callback for a value that is none of the three
\* lifecycle states published the label Unknown.
C13_Witness ==
    /\ cb.callback = "OnStateChanged"
    /\ cb.args[1] \notin {AudioSessionStateInactive, AudioSessionStateActive,
                          AudioSessionStateExpired}
    /\ cb.emitted # NoEvent
    /\ cb.emitted[1].state = Some("Unknown")

(* -------------------------------- the mutex ---------------------------- *)
\* worker t is between lock() and the return of with_manager
InManager(t) == pc[t] \in {"locked", "call"}

\* C14: with several workers invoking the five commands at once, at most one
\* worker is inside with_manager's critical section at any time, that worker
\* holds the mutex, and every step that creates the manager, runs a command
\* against it or changes the audio subsystem on its behalf is taken by the
\* worker holding the mutex.
C14_OneOperationAtATime ==
    /\ [](\A t, u \in Threads : (InManager(t) /\ InManager(u)) => t = u)
    /\ [](\A t \in Threads : InManager(t) => Holder(t))
    /\ [](~Idle => \E t \in Threads : Holder(t) /\ pc[t] = "call")
    /\ [][(\/ manager' # manager \/ app_handle' # app_handle
           \/ world' # world \/ last' # last \/ plast' # plast) =>
             \E t \in Threads : Holder(t) /\ InManager(t)]_vars

\* C14 witness: one worker has run a command under the mutex and not yet
\* returned while another worker waits in lock().
C14_Witness ==
    \E t, u \in Threads :
        /\ t # u
        /\ Holder(t) /\ pc[t] = "call" /\ ~Idle
        /\ pc[u] = "lock"

\* a worker step is possible
HostCanStep == ENABLED (Invoke \/ Lock \/ Create \/ CallMixer \/ Return)

VolumeReads == {"CastSimpleVolume", "GetMasterVolume"}
MuteReads == {"CastSimpleVolume", "GetMute"}
Registration == {"CastControl", "Register"}
Absorbed == VolumeReads \cup MuteReads \cup Registration \cup {"ProcessPath"}

\* C16: when the only failure of a listing is that a session's simple-volume
\* interface cannot be obtained, that its volume or mute read fails, that its
\* listener cannot be registered (or no app handle is set, so none is tried),
\* or that its executable path cannot be resolved, the listing succeeds and
\* every session with pid # 0 and state # Expired is listed: with volume 0.0
\* for an unreadable volume, mute false for an unreadable mute, the name
\* "Unknown" and no icon for an unresolved path, and the values read
\* otherwise.
C16_AbsorbedFailuresStillListed ==
    (Listing /\ (last.fault = NoFault \/ last.fault[1] \in Absorbed)) =>
        /\ last.res = "Ok"
        /\ {last.src[k] : k \in 1 .. Len(last.src)} = Listed(world)
        /\ Len(last.src) = Cardinality(Listed(world))
        /\ \A k \in 1 .. Len(last.out) :
              LET s == At(world, last.src[k])
                  here(sites) == /\ last.fault[1] \in sites
                                 /\ last.src[k] = <<last.fault[2], last.fault[3]>>
                  e == last.out[k]
              IN /\ e.process_id = s.pid
                 /\ e.volume = (IF here(VolumeReads) THEN 0 ELSE s.vol)
                 /\ e.is_muted = (IF here(MuteReads) THEN FALSE ELSE s.mute)
                 /\ IF here({"ProcessPath"})
                    THEN e.process_name = "Unknown" /\ e.icon_base64 = FALSE
                    ELSE e.process_name # "Unknown"

\* C16 witness: the simple-volume interface of a muted session at full volume
\* could not be obtained, and the session is listed unmuted at volume 0.
C16_Witness ==
    /\ Listing /\ last.res = "Ok"
    /\ last.fault[1] = "CastSimpleVolume"
    /\ \E k \in 1 .. Len(last.out) :
          /\ last.src[k] = <<last.fault[2], last.fault[3]>>
          /\ At(world, last.src[k]).mute
          /\ At(world, last.src[k]).vol = MaxVol
          /\ last.out[k].volume = 0 /\ ~last.out[k].is_muted

(* --------------------------- inactive sessions ------------------------- *)
\* world with the state of the session at pos replaced
WithState(w, pos, state) ==
    [w EXCEPT ![pos[1]].sessions[pos[2]].state = state]

NegotiationFailed ==
    \/ ~plast.calls[1][2]
    \/ \A k \in 1 .. Len(Queries) : ~Succeeded(Queries[k])
    \/ \E k \in 1 .. Len(Queries) : Queries[k][3] = "null"

FailedRouting == Routing /\ NegotiationFailed

\* C19: a set_audio_routing whose negotiation fails returns an error without
\* any write or read-back; the failing call changes neither the audio
\* subsystem nor the shared manager, and when it returns the mutex is free
\* and the manager is still there, so the next command of any worker runs as
\* if the failed call had not been made.
C19_NegotiationFailureConfined ==
    /\ [](FailedRouting => (plast.res = "Err" /\ Len(StoreCalls) = 0))
    /\ [][(plast.op = "none" /\ plast'.op = "set_audio_routing") =>
             UNCHANGED <<world, app_handle, manager, mutex, pc, last, cb>>]_vars
    /\ [][FailedRouting =>
             /\ UNCHANGED <<world, app_handle, manager, last, cb>>
             /\ plast' # plast =>
                    (plast' = NoRoute /\ mutex' = 0 /\ manager'
                     /\ \A t \in Threads : ~InManager(t)')]_vars
    /\ []((manager /\ mutex = 0 /\ \E t \in Threads : pc[t] = "lock") =>
             ENABLED Lock)

\* C19 witness: the newest interface was refused and the older one answered
\* with a null pointer; the call returned an error, and another worker waits
\* in lock() to run its own command.
C19_Witness ==
    /\ FailedRouting /\ plast.res = "Err"
    /\ Len(Queries) = 2 /\ Queries[2][3] = "null"
    /\ Len(StoreCalls) = 0
    /\ \E t \in Threads : pc[t] = "lock"

(* ----------------------- the unfiltered target search ------------------ *)
\* C20: the search of set_session_volume / set_session_mute applies none of
\* the listing's filters.  A call that returns Ok has acted on the first
\* session, in device then session order, whose process id equals the target
\* and whose session-control and simple-volume interfaces can be obtained,
\* whatever that session's state and even for target pid 0; a matching session
\* whose interface cannot be obtained is passed over for a later one; and the
\* session found does not depend on any session's lifecycle state.
C20_SearchIgnoresFilters ==
    last.op \in SetOps =>
        LET r == apply_to_session(world, last.fault, last.pid)
            app == Applicable(world, last.pid, last.fault)
        IN /\ r.res = last.res
           /\ r.hit = (IF last.res = "Ok" /\ app # {} THEN First(app)
                       ELSE NoTarget)
           /\ r.hit # NoTarget =>
                 IF last.op = "set_session_volume"
                 THEN At(world, r.hit).vol = last.volume
                 ELSE At(world, r.hit).mute = last.mute
           /\ \A pos \in Positions(world), state \in AudioSessionState :
                 apply_to_session(WithState(world, pos, state), last.fault,
                                  last.pid) = r

\* C20 witness: a set_session_volume for pid 0 passed over the first system
\* session, whose simple-volume interface could not be obtained, and set the
\* volume of a later, Expired one, which no listing shows.
C20_Witness ==
    /\ last.op = "set_session_volume" /\ last.res = "Ok" /\ last.pid = 0
    /\ last.fault[1] = "CastSimpleVolume"
    /\ At(world, <<last.fault[2], last.fault[3]>>).pid = 0
    /\ At(world, <<last.fault[2], last.fault[3]>>).vol # last.volume
    /\ \E pos \in Positions(world) :
          /\ Before(<<last.fault[2], last.fault[3]>>, pos)
          /\ At(world, pos).pid = 0 /\ At(world, pos).state = "Expired"
          /\ At(world, pos).vol = last.volume
    /\ get_sessions(world, NoFault, app_handle).out = <<>>
(* --------------------------- the listeners ----------------------------- *)
\* a step in which a listing made with the app handle set returns
ListingWithHandle ==
    app_handle /\ last.op = "none" /\ last'.op = "get_sessions"

\* the listing's failing call was the cast to IAudioSessionControl or the
\* registration itself, on the session at pos
RegistrationFailed(op, pos) ==
    \/ op.fault = <<"CastControl", pos[1], pos[2]>>
    \/ op.fault = <<"Register", pos[1], pos[2]>>

\* no step takes a listener away from a session
ListenersNeverDecrease ==
    \A pos \in Positions(world) :
        Listeners(world', pos) >= Listeners(world, pos)

\* the change just notified published one event for every listener of a
\* session of the process, each carrying its process id
PublishedPerListener ==
    notified' # notified =>
        \E pos \in Positions(world) :
            /\ Len(notified') = Listeners(world, pos)
            /\ \A k \in 1 .. Len(notified') :
                  /\ notified'[k].emitted # NoEvent
                  /\ notified'[k].emitted[1].process_id = At(world, pos).pid

====
